---------------------------- MODULE Spec2Model ----------------------------
(***************************************************************************)
(* Schema template resolution engine of the yaml-schemas extension         *)
(* (src/src/extension.ts, src/src/schemaTemplates.ts).                      *)
(*                                                                         *)
(* Strings are sequences of symbols.  A symbol is one character, or a      *)
(* whole word that the program only ever handles as a unit ("myschema",    *)
(* "workspaceFolder", "enumSource", ...); the letters of such a word are    *)
(* not symbols of their own, so a string has one representation only.      *)
(***************************************************************************)
EXTENDS Integers, Sequences, FiniteSets, TLC

(***************************************************************************)
(* Bounds of the model.                                                    *)
(***************************************************************************)
MaxNodes == 4      \* nodes of a generated template tree
MaxRecords == 2    \* records of a generated data file
MaxFiles == 3      \* entries of a generated template directory

(***************************************************************************)
(* JavaScript values: the JSON trees of templates and the rows that        *)
(* yaml.load returns.                                                      *)
(***************************************************************************)
Undefined == [t |-> "undefined"]
Null == [t |-> "null"]
NaN == [t |-> "nan"]
Thrown == [t |-> "throw"]          \* the evaluation threw an exception
Str(s) == [t |-> "str", v |-> s]
Num(n) == [t |-> "num", n |-> n]
Fn(f) == [t |-> "fn", f |-> f]      \* a callable; f names what it computes
Obj(kv) == [t |-> "obj", kv |-> kv] \* kv: the own properties, in property order
Arr(kv) == [t |-> "arr", kv |-> kv] \* kv: <<"0", e0>>, <<"1", e1>>, ...

\* Results of operations that yield a string or a sequence, or throw.
Ok(x) == [ok |-> TRUE, v |-> x]
Throw == [ok |-> FALSE]

Digits == <<"0", "1", "2", "3", "4", "5", "6", "7", "8", "9">>
IsDigit(c) == \E d \in 1..Len(Digits) : Digits[d] = c
DigitVal(c) == (CHOOSE d \in 1..Len(Digits) : Digits[d] = c) - 1

\* Number.prototype.toString (radix 10) of a non-negative integer.
RECURSIVE NumToString(_)
NumToString(n) ==
  IF n < Len(Digits) THEN <<Digits[n + 1]>>
  ELSE NumToString(n \div Len(Digits)) \o <<Digits[(n % Len(Digits)) + 1]>>

\* The property key of the i-th element (1-based here) of a JavaScript array.
IdxKey(i) == NumToString(i - 1)
ArrOf(el) == Arr([i \in 1..Len(el) |-> <<IdxKey(i), el[i]>>])

IsContainer(x) == x.t \in {"obj", "arr"}
\* Faulty variant: arrays are not descended into.
TypeofObject_NoArrays(x) == x.t \in {"obj", "null"}
\* typeof x === 'object' (true of null as well)
TypeofObject(x) == x.t \in {"obj", "arr", "null"}

Keys(o) == IF IsContainer(o) THEN [i \in 1..Len(o.kv) |-> o.kv[i][1]] ELSE <<>>
HasOwn(o, k) == IsContainer(o) /\ \E i \in 1..Len(o.kv) : o.kv[i][1] = k
Own(o, k) == o.kv[CHOOSE i \in 1..Len(o.kv) : o.kv[i][1] = k][2]

\* o[k] = v: an existing property keeps its place, a new one goes last.
SetKey(o, k, v) ==
  IF HasOwn(o, k)
  THEN [o EXCEPT !.kv = [i \in 1..Len(o.kv) |->
                          IF o.kv[i][1] = k THEN <<k, v>> ELSE o.kv[i]]]
  ELSE [o EXCEPT !.kv = Append(o.kv, <<k, v>>)]

\* delete o[k]
DelKey(o, k) == [o EXCEPT !.kv = SelectSeq(o.kv, LAMBDA e : e[1] # k)]

\* Properties every object inherits from its prototype; "constructor" stands
\* for them (toString, valueOf, ... behave alike for a property read).
Inherited == {<<"constructor">>}

\* x[k]: the own property, else the inherited one, else undefined; reading a
\* property of null or undefined throws a TypeError.
GetProp(x, k) ==
  IF x.t \in {"null", "undefined", "throw"} THEN Thrown
  ELSE IF HasOwn(x, k) THEN Own(x, k)
  ELSE IF k \in Inherited /\ x.t # "nan" THEN Fn("constructor")
  ELSE Undefined

\* if (x): JavaScript truthiness.
Truthy(x) ==
  CASE x.t \in {"undefined", "null", "nan", "throw"} -> FALSE
    [] x.t = "str" -> x.v # <<>>
    [] x.t = "num" -> x.n # 0
    [] OTHER -> TRUE

\* x.toString(): throws on null and undefined, and on an object whose own
\* "toString" property (data, never a function) hides the inherited method.
RECURSIVE toString(_)
RECURSIVE JoinFrom(_, _)
JoinFrom(kv, i) ==
  IF i > Len(kv) THEN Ok(<<>>)
  ELSE LET e == kv[i][2]
           s == IF e.t \in {"null", "undefined"} THEN Ok(<<>>) ELSE toString(e)
           rest == JoinFrom(kv, i + 1)
       IN IF ~s.ok \/ ~rest.ok THEN Throw
          ELSE Ok(s.v \o (IF i < Len(kv) THEN <<",">> ELSE <<>>) \o rest.v)
toString(x) ==
  CASE x.t \in {"undefined", "null", "throw"} -> Throw
    [] x.t = "str" -> Ok(x.v)
    [] x.t = "num" -> Ok(NumToString(x.n))
    [] x.t = "nan" -> Ok(<<"NaN">>)
    [] x.t = "fn" -> Ok(<<"function">>)
    [] x.t = "obj" -> IF HasOwn(x, <<"toString">>) THEN Throw
                      ELSE Ok(<<"[object Object]">>)
    [] x.t = "arr" -> JoinFrom(x.kv, 1)

(***************************************************************************)
(* JSON text.  A text is a sequence of tokens; JSON.parse builds the tree  *)
(* (a repeated member name keeps its first place and its last value) and    *)
(* JSON.stringify writes it back, in property order.                        *)
(***************************************************************************)
Punct(c) == [k |-> c]
TStr(s) == [k |-> "str", s |-> s]
TNum(n) == [k |-> "num", n |-> n]
TNull == [k |-> "null"]

RECURSIVE JSONstringify(_)
RECURSIVE StringifyMembers(_, _, _)
StringifyMembers(o, i, first) ==
  IF i > Len(o.kv) THEN <<>>
  ELSE LET v == o.kv[i][2]
           skip == o.t = "obj" /\ v.t \in {"undefined", "fn", "throw"}
           item == (IF first THEN <<>> ELSE <<Punct(",")>>)
                   \o (IF o.t = "obj" THEN <<TStr(o.kv[i][1]), Punct(":")>> ELSE <<>>)
                   \o JSONstringify(v)
       IN IF skip THEN StringifyMembers(o, i + 1, first)
          ELSE item \o StringifyMembers(o, i + 1, FALSE)
JSONstringify(x) ==
  CASE x.t = "str" -> <<TStr(x.v)>>
    [] x.t = "num" -> <<TNum(x.n)>>
    [] x.t = "obj" -> <<Punct("{")>> \o StringifyMembers(x, 1, TRUE) \o <<Punct("}")>>
    [] x.t = "arr" -> <<Punct("[")>> \o StringifyMembers(x, 1, TRUE) \o <<Punct("]")>>
    [] OTHER -> <<TNull>>

ParseFail == [ok |-> FALSE, v |-> Thrown, rest |-> <<>>]
Parsed(v, rest) == [ok |-> TRUE, v |-> v, rest |-> rest]
IsTok(toks, c) == toks # <<>> /\ Head(toks).k = c

RECURSIVE ParseValue(_)
RECURSIVE ParseMembers(_, _)
RECURSIVE ParseElements(_, _)
\* toks stands right after "{" or after a ","; acc holds the members so far.
ParseMembers(toks, acc) ==
  IF ~IsTok(toks, "str") \/ ~IsTok(Tail(toks), ":") THEN ParseFail
  ELSE LET r == ParseValue(Tail(Tail(toks)))
           o == SetKey(acc, Head(toks).s, r.v)
       IN IF ~r.ok THEN ParseFail
          ELSE IF IsTok(r.rest, "}") THEN Parsed(o, Tail(r.rest))
          ELSE IF IsTok(r.rest, ",") THEN ParseMembers(Tail(r.rest), o)
          ELSE ParseFail
ParseElements(toks, acc) ==
  LET r == ParseValue(toks)
      a == SetKey(acc, IdxKey(Len(acc.kv) + 1), r.v)
  IN IF ~r.ok THEN ParseFail
     ELSE IF IsTok(r.rest, "]") THEN Parsed(a, Tail(r.rest))
     ELSE IF IsTok(r.rest, ",") THEN ParseElements(Tail(r.rest), a)
     ELSE ParseFail
ParseValue(toks) ==
  IF toks = <<>> THEN ParseFail
  ELSE LET h == Head(toks)
           rest == Tail(toks)
       IN CASE h.k = "null" -> Parsed(Null, rest)
            [] h.k = "str" -> Parsed(Str(h.s), rest)
            [] h.k = "num" -> Parsed(Num(h.n), rest)
            [] h.k = "{" -> IF IsTok(rest, "}") THEN Parsed(Obj(<<>>), Tail(rest))
                            ELSE ParseMembers(rest, Obj(<<>>))
            [] h.k = "[" -> IF IsTok(rest, "]") THEN Parsed(Arr(<<>>), Tail(rest))
                            ELSE ParseElements(rest, Arr(<<>>))
            [] OTHER -> ParseFail

\* JSON.parse(text): the tree, or Thrown (a SyntaxError).
JSONparse(text) ==
  LET r == ParseValue(text)
  IN IF r.ok /\ r.rest = <<>> THEN r.v ELSE Thrown

(***************************************************************************)
(* The tree addressed by a path of property keys.                          *)
(***************************************************************************)
RECURSIVE GetPath(_, _)
GetPath(x, path) ==
  IF path = <<>> THEN x ELSE GetPath(Own(x, Head(path)), Tail(path))

RECURSIVE SetPath(_, _, _)
SetPath(x, path, new) ==
  IF path = <<>> THEN new
  ELSE SetKey(x, Head(path), SetPath(Own(x, Head(path)), Tail(path), new))

(***************************************************************************)
(* Strings: split, startsWith, parseInt, Array.prototype.at.               *)
(***************************************************************************)
\* The position of the first symbol of s, at or after i, that is in set;
\* Len(s) + 1 when there is none.
RECURSIVE FirstIn(_, _, _)
FirstIn(s, i, set) ==
  IF i > Len(s) \/ s[i] \in set THEN i ELSE FirstIn(s, i + 1, set)

\* s.split(sep): the pieces between the separators (one piece when none).
RECURSIVE Split(_, _)
Split(s, sep) ==
  LET i == FirstIn(s, 1, {sep})
  IN IF i > Len(s) THEN <<s>>
     ELSE <<SubSeq(s, 1, i - 1)>> \o Split(SubSeq(s, i + 1, Len(s)), sep)

\* s.startsWith(p)
StartsWith(s, p) == Len(p) <= Len(s) /\ SubSeq(s, 1, Len(p)) = p

\* pieces.pop(): the last piece of a split.
Pop(pieces) == pieces[Len(pieces)]

HexDigits == Digits \o <<"a", "b">>
HexVal(c) == (CHOOSE d \in 1..Len(HexDigits) : HexDigits[d] = c) - 1
IsHexDigit(c) == \E d \in 1..Len(HexDigits) : HexDigits[d] = c

\* The value of the longest prefix of s made of digits of the radix, from acc;
\* the digits of radix 16 modelled are 0-9, a, b.
RECURSIVE DigitsValue(_, _, _)
DigitsValue(s, radix, acc) ==
  IF s = <<>> THEN acc
  ELSE IF radix = 10 /\ IsDigit(Head(s))
       THEN DigitsValue(Tail(s), radix, acc * radix + DigitVal(Head(s)))
  ELSE IF radix = 16 /\ IsHexDigit(Head(s))
       THEN DigitsValue(Tail(s), radix, acc * radix + HexVal(Head(s)))
  ELSE acc

\* parseInt(s) with no radix argument: leading blanks are skipped, a sign is
\* accepted, a 0x prefix selects radix 16, the digits stop at the first symbol
\* that is none, and no digit at all gives NaN.
RECURSIVE parseInt(_)
parseInt(s) ==
  IF s # <<>> /\ Head(s) = " " THEN parseInt(Tail(s))
  ELSE LET neg == s # <<>> /\ Head(s) = "-"
           u == IF s # <<>> /\ Head(s) \in {"-", "+"} THEN Tail(s) ELSE s
           hex == StartsWith(u, <<"0", "x">>)
           d == IF hex THEN SubSeq(u, 3, Len(u)) ELSE u
           radix == IF hex THEN 16 ELSE 10
           none == d = <<>> \/ (IF hex THEN ~IsHexDigit(Head(d)) ELSE ~IsDigit(Head(d)))
           n == DigitsValue(d, radix, 0)
       IN IF none THEN NaN ELSE Num(IF neg THEN 0 - n ELSE n)

\* array.at(i): NaN counts as 0, a negative index counts from the end, an
\* index outside the array gives undefined. The result is the 1-based
\* position in the TLA+ sequence, 0 standing for undefined.
At(len, i) ==
  LET rel == IF i.t = "nan" THEN 0 ELSE i.n
      k == IF rel >= 0 THEN rel ELSE len + rel
  IN IF k < 0 \/ k >= len THEN 0 ELSE k + 1

(***************************************************************************)
(* vscode.Uri.parse: scheme, authority, path, query and fragment cut by    *)
(* the URI regular expression, each component percent-decoded; a missing    *)
(* scheme becomes "file"; an illegal scheme or an authority followed by a   *)
(* path without a leading slash throws.                                     *)
(***************************************************************************)
SCHEMA == <<"myschema">>
workspaceFolderQueryParam == <<"workspaceFolder">>
enumField == <<"enumSource">>

\* Symbols a scheme may consist of (\w, digits, + . -).
SchemeSymbols == {"myschema", "file", "http", "a", "b", "x", "."} \cup
                 {Digits[d] : d \in 1..Len(Digits)} \cup {"-", "+"}

\* decodeURIComponent on the escapes modelled: %23 is "#".
percentDecode(s) == [i \in 1..Len(s) |-> IF s[i] = "%23" THEN "#" ELSE s[i]]

UriParse(str) ==
  LET c == FirstIn(str, 1, {":", "/", "?", "#"})
      hasScheme == c <= Len(str) /\ str[c] = ":" /\ c > 1
      scheme == IF hasScheme THEN SubSeq(str, 1, c - 1) ELSE <<>>
      r1 == IF hasScheme THEN SubSeq(str, c + 1, Len(str)) ELSE str
      hasAuth == StartsWith(r1, <<"/", "/">>)
      a == FirstIn(r1, 3, {"/", "?", "#"})
      authority == IF hasAuth THEN SubSeq(r1, 3, a - 1) ELSE <<>>
      r2 == IF hasAuth THEN SubSeq(r1, a, Len(r1)) ELSE r1
      q == FirstIn(r2, 1, {"?", "#"})
      path == SubSeq(r2, 1, q - 1)
      r3 == SubSeq(r2, q, Len(r2))
      hasQuery == r3 # <<>> /\ Head(r3) = "?"
      f == FirstIn(r3, 1, {"#"})
      query == IF hasQuery THEN SubSeq(r3, 2, f - 1) ELSE <<>>
      fixed == IF scheme = <<>> THEN <<"file">> ELSE scheme
      slashed == IF fixed \in {<<"file">>, <<"http">>} /\ (path = <<>> \/ Head(path) # "/")
                 THEN <<"/">> \o path ELSE path
      dpath == percentDecode(slashed)
      illegal == (\E i \in 1..Len(fixed) : fixed[i] \notin SchemeSymbols)
                 \/ (fixed # <<>> /\ (IsDigit(Head(fixed)) \/ Head(fixed) \in {"-", "+", "."}))
                 \/ (authority # <<>> /\ dpath # <<>> /\ Head(dpath) # "/")
                 \/ (authority = <<>> /\ StartsWith(dpath, <<"/", "/">>))
  IN IF illegal THEN [ok |-> FALSE]
     ELSE [ok |-> TRUE, scheme |-> fixed, authority |-> percentDecode(authority),
           path |-> dpath, query |-> percentDecode(query)]

\* Uri.fsPath of a parsed URI (posix): //authority/path for a file URI with an
\* authority, else the path.
fsPath(u) ==
  IF u.authority # <<>> /\ Len(u.path) > 1 /\ u.scheme = <<"file">>
  THEN <<"/", "/">> \o u.authority \o u.path
  ELSE u.path

\* Uri.joinPath(root, file) for a root given by its path.
joinPath(root, file) == root \o <<"/">> \o file

(***************************************************************************)
(* The registry: a Map from name to template, in insertion order.          *)
(***************************************************************************)
\* Map.prototype.set: a name already present keeps its place.
MapSet(m, name, t) ==
  IF \E i \in 1..Len(m) : m[i][1] = name
  THEN [i \in 1..Len(m) |-> IF m[i][1] = name THEN <<name, t>> ELSE m[i]]
  ELSE Append(m, <<name, t>>)

\* new SchemaTemplates(templates)
RECURSIVE SetAll(_, _)
SetAll(m, templates) ==
  IF templates = <<>> THEN m
  ELSE SetAll(MapSet(m, Head(templates).name, Head(templates)), Tail(templates))
SchemaTemplates(templates) == [nameToTemplate |-> SetAll(<<>>, templates)]

getBySchemaName(reg, name) ==
  LET m == reg.nameToTemplate
  IN IF \E i \in 1..Len(m) : m[i][1] = name
     THEN m[CHOOSE i \in 1..Len(m) : m[i][1] = name][2]
     ELSE Undefined

\* Faulty variant: the last matching template wins.
FirstMatch_Last(m, fileName) ==
  LET hits == {i \in 1..Len(m) : m[i][2].filePattern = Str(fileName)}
  IN IF hits = {} THEN Undefined
     ELSE m[CHOOSE i \in hits : \A j \in hits : i >= j][2]
\* Faulty variant: the pattern matches as a prefix of the file name.
FirstMatch_Prefix(m, fileName) ==
  LET hits == {i \in 1..Len(m) : /\ m[i][2].filePattern.t = "str"
                                 /\ StartsWith(fileName, m[i][2].filePattern.v)}
  IN IF hits = {} THEN Undefined
     ELSE m[CHOOSE i \in hits : \A j \in hits : i <= j][2]
\* The first template, in Map order, whose filePattern is the string fileName.
FirstMatch(m, fileName) ==
  LET hits == {i \in 1..Len(m) : m[i][2].filePattern = Str(fileName)}
  IN IF hits = {} THEN Undefined
     ELSE m[CHOOSE i \in hits : \A j \in hits : i <= j][2]
matchByFileName(reg, fileName) == FirstMatch(reg.nameToTemplate, fileName)

(***************************************************************************)
(* loadSchemas: one template per plain file of the directory.              *)
(***************************************************************************)
\* The first plain file at or after entry i; Len + 1 when there is none.
RECURSIVE NextFile(_, _)
NextFile(files, i) ==
  IF i > Len(files) \/ files[i].type = "File" THEN i ELSE NextFile(files, i + 1)

\* Lines 104-110 on one file: the template, or Thrown when the content is no
\* JSON or parses to null.
TemplateOf(entry) ==
  LET schemaObj == JSONparse(entry.content)
      pattern == GetProp(schemaObj, <<"filePattern">>)
  IN IF schemaObj = Thrown \/ pattern = Thrown THEN Thrown
     ELSE [name |-> entry.name, filePattern |-> pattern, schema |-> entry.content]

(***************************************************************************)
(* resolveEnum, after the data file has been read and parsed by yaml.load. *)
(***************************************************************************)
\* eval(expr) for the expression texts modelled: two arrow functions, a text
\* that evaluates to a number, and anything else a SyntaxError.
Eval(expr) ==
  CASE expr = <<"i=>i.v">> -> Fn("v")
    [] expr = <<"i=>i.n*2">> -> Fn("n*2")
    [] expr = <<"4", "2">> -> Num(42)
    [] OTHER -> Thrown

\* arrowFunction(i)
Call(f, i) ==
  IF f.t # "fn" THEN Thrown
  ELSE IF f.f = "v" THEN GetProp(i, <<"v">>)
  ELSE LET n == GetProp(i, <<"n">>)
       IN CASE n.t = "throw" -> Thrown
            [] n.t = "num" -> Num(n.n * 2)
            [] n.t = "null" -> Num(0)
            [] OTHER -> NaN

\* The callback of map: line 78 (how is the property key) or lines 85-88
\* (how is the evaluated expression).
ValueOf(i, how) ==
  IF how.by = "property" THEN toString(GetProp(i, how.prop))
  ELSE toString(Call(how.fn, i))

\* yamlContent.map(...): the callback applied to every element in order; it
\* throws when yamlContent is no array or when the callback throws.
MapToStrings(yamlContent, how) ==
  IF yamlContent.t # "arr" THEN Throw
  ELSE LET vals == [k \in 1..Len(yamlContent.kv) |-> ValueOf(yamlContent.kv[k][2], how)]
       IN IF \E k \in 1..Len(vals) : ~vals[k].ok THEN Throw
          ELSE Ok([k \in 1..Len(vals) |-> vals[k].v])

\* Faulty variant: the values come out in reverse order.
MapToStrings_Reversed(yamlContent, how) ==
  IF yamlContent.t # "arr" THEN Throw
  ELSE LET n == Len(yamlContent.kv)
           vals == [k \in 1..n |-> ValueOf(yamlContent.kv[n + 1 - k][2], how)]
       IN IF \E k \in 1..n : ~vals[k].ok THEN Throw
          ELSE Ok([k \in 1..n |-> vals[k].v])
resolveEnumValues_Reversed(enumSource, yamlContent) ==
  LET property == GetProp(enumSource, <<"property">>)
      expression == GetProp(enumSource, <<"expression">>)
      prop == toString(property)
      arrowFunction == IF expression.t = "str" THEN Eval(expression.v) ELSE expression
  IN IF Truthy(property)
     THEN IF ~prop.ok THEN Throw
          ELSE MapToStrings_Reversed(yamlContent, [by |-> "property", prop |-> prop.v])
     ELSE IF Truthy(expression)
     THEN IF arrowFunction = Thrown THEN Throw
          ELSE MapToStrings_Reversed(yamlContent, [by |-> "expression", fn |-> arrowFunction])
     ELSE Ok(<<>>)

\* Faulty variant: the expression is looked at before the property.
resolveEnumValues_ExpressionFirst(enumSource, yamlContent) ==
  LET property == GetProp(enumSource, <<"property">>)
      expression == GetProp(enumSource, <<"expression">>)
      prop == toString(property)
      arrowFunction == IF expression.t = "str" THEN Eval(expression.v) ELSE expression
  IN IF Truthy(expression)
     THEN IF arrowFunction = Thrown THEN Throw
          ELSE MapToStrings(yamlContent, [by |-> "expression", fn |-> arrowFunction])
     ELSE IF Truthy(property)
     THEN IF ~prop.ok THEN Throw
          ELSE MapToStrings(yamlContent, [by |-> "property", prop |-> prop.v])
     ELSE Ok(<<>>)

\* Lines 75-92.
resolveEnumValues(enumSource, yamlContent) ==
  LET property == GetProp(enumSource, <<"property">>)
      expression == GetProp(enumSource, <<"expression">>)
      prop == toString(property)
      arrowFunction == IF expression.t = "str" THEN Eval(expression.v) ELSE expression
  IN IF Truthy(property)
     THEN IF ~prop.ok THEN Throw
          ELSE MapToStrings(yamlContent, [by |-> "property", prop |-> prop.v])
     ELSE IF Truthy(expression)
     THEN IF arrowFunction = Thrown THEN Throw
          ELSE MapToStrings(yamlContent, [by |-> "expression", fn |-> arrowFunction])
     ELSE Ok(<<>>)

(***************************************************************************)
(* State.                                                                  *)
(***************************************************************************)
VARIABLES
  schemaFiles,       \* the template directory: <<[name, type, content], ...>>
  fs,                \* the data files: path |-> what yaml.load returns for it
  workspaceFolders,  \* vscode.workspace.workspaceFolders: the roots' paths
  act,               \* where activate() stands
  load,              \* loadSchemas and schemaTemplatesPromise
  schemaTemplates,   \* the module variable of line 119
  uriOut,            \* the last onRequestSchemaURI call and what it returned
  req                \* the onRequestSchemaContent calls; with each, the paths
                     \* traverse was called on and those resolveEnum was
                     \* called at, in order (kept for the properties only)

vars == <<schemaFiles, fs, workspaceFolders, act, load, schemaTemplates, uriOut, req>>
env == <<schemaFiles, fs, workspaceFolders>>

Reqs == {"q1", "q2"}

IdleLoad == [pc |-> "idle", i |-> 0, templates |-> <<>>, value |-> Undefined]
NoUriOut == [called |-> FALSE, resource |-> <<>>, uri |-> Undefined, error |-> "none",
             matched |-> FALSE, loaded |-> FALSE, found |-> Undefined, folder |-> 0]
IdleReq == [pc |-> "idle", uri |-> <<>>, name |-> <<>>, query |-> <<>>,
            looked |-> FALSE, template |-> Undefined, root |-> 0,
            tree |-> Undefined, stack |-> <<>>, pend |-> Undefined,
            schema |-> Undefined, error |-> "none", calls |-> 0,
            visited |-> <<>>, resolved |-> <<>>]

(***************************************************************************)
(* activate (lines 121-146, 211) and loadSchemas (lines 95-115, 131-135).  *)
(***************************************************************************)
\* activate up to its await: loadSchemas is started and runs to its own
\* await of readDirectory; without the YAML extension nothing is registered.
Activate ==
  /\ act = "inactive"
  /\ load' = [load EXCEPT !.pc = "dir"]
  /\ \E found \in BOOLEAN : act' = IF found THEN "awaitYaml" ELSE "failed"
  /\ UNCHANGED <<env, schemaTemplates, uriOut, req>>

\* yamlExtension.activate() returns: the contributor is registered, or not.
YamlActivated ==
  /\ act = "awaitYaml"
  /\ \E api \in BOOLEAN : act' = IF api THEN "registered" ELSE "failed"
  /\ UNCHANGED <<env, load, schemaTemplates, uriOut, req>>

\* loadSchemas continues at entry j with the templates read so far: it awaits
\* the next plain file, or returns the registry, which fulfils the promise
\* and runs the callback of line 132 before any other awaiter of the promise.
LoadContinue(templates, j) ==
  IF j > Len(schemaFiles)
  THEN /\ load' = [pc |-> "fulfilled", i |-> j, templates |-> templates,
                   value |-> SchemaTemplates(templates)]
       /\ schemaTemplates' = SchemaTemplates(templates)
  ELSE /\ load' = [pc |-> "files", i |-> j, templates |-> templates, value |-> Undefined]
       /\ UNCHANGED schemaTemplates

\* readDirectory returns the listing, or fails.
LoadReadDir ==
  /\ load.pc = "dir"
  /\ \E ok \in BOOLEAN :
       IF ok THEN LoadContinue(<<>>, NextFile(schemaFiles, 1))
       ELSE load' = [load EXCEPT !.pc = "rejected"] /\ UNCHANGED schemaTemplates
  /\ UNCHANGED <<env, act, uriOut, req>>

\* Faulty variant: a file that does not parse is skipped.
LoadFile_SkipBad ==
  /\ load.pc = "files"
  /\ LET t == TemplateOf(schemaFiles[load.i])
     IN IF t = Thrown
        THEN LoadContinue(load.templates, NextFile(schemaFiles, load.i + 1))
        ELSE LoadContinue(Append(load.templates, t), NextFile(schemaFiles, load.i + 1))
  /\ UNCHANGED <<env, act, uriOut, req>>

\* readFile of entry i returns: lines 103-112, then on with the loop.
LoadFile ==
  /\ load.pc = "files"
  /\ LET t == TemplateOf(schemaFiles[load.i])
     IN IF t = Thrown
        THEN load' = [load EXCEPT !.pc = "rejected"] /\ UNCHANGED schemaTemplates
        ELSE LoadContinue(Append(load.templates, t), NextFile(schemaFiles, load.i + 1))
  /\ UNCHANGED <<env, act, uriOut, req>>

(***************************************************************************)
(* onRequestSchemaURI (lines 148-173).                                     *)
(***************************************************************************)
\* Faulty variant: the first workspace folder is taken whatever the path.
FindFolder_Any(path) == IF Len(workspaceFolders) = 0 THEN 0 ELSE 1

\* The first workspace folder whose path the resource's path starts with
\* (its 1-based position), 0 when there is none.
FindFolder(path) ==
  LET hits == {i \in 1..Len(workspaceFolders) : StartsWith(path, workspaceFolders[i])}
  IN IF hits = {} THEN 0 ELSE CHOOSE i \in hits : \A j \in hits : i <= j

\* Line 172.
EncodeUri(name, index) ==
  SCHEMA \o <<":", "/", "/", "schema", "/">> \o name
         \o <<"?">> \o workspaceFolderQueryParam \o <<"=">> \o NumToString(index)

\* Faulty variant: before the load has completed the query answers from the templates
\* read so far.
UriAnswer_Guess(resource) ==
  LET parsedUri == UriParse(resource)
      filename == Pop(Split(parsedUri.path, "/"))
      known == IF schemaTemplates = Undefined THEN SchemaTemplates(load.templates)
               ELSE schemaTemplates
      foundSchema == matchByFileName(known, filename)
      folder == FindFolder(fsPath(parsedUri))
      base == [NoUriOut EXCEPT !.called = TRUE, !.resource = resource,
                               !.loaded = schemaTemplates # Undefined]
  IN IF ~parsedUri.ok THEN [base EXCEPT !.error = "throw"]
     ELSE IF filename = <<>> THEN [base EXCEPT !.error = "filename"]
     ELSE IF foundSchema = Undefined THEN [base EXCEPT !.matched = TRUE]
     ELSE IF folder = 0
          THEN [base EXCEPT !.matched = TRUE, !.found = foundSchema, !.error = "folder"]
     ELSE [base EXCEPT !.matched = TRUE, !.found = foundSchema, !.folder = folder,
                       !.uri = Str(EncodeUri(foundSchema.name, folder - 1))]

UriAnswer(resource) ==
  LET parsedUri == UriParse(resource)
      filename == Pop(Split(parsedUri.path, "/"))
      foundSchema == matchByFileName(schemaTemplates, filename)
      folder == FindFolder(fsPath(parsedUri))
      base == [NoUriOut EXCEPT !.called = TRUE, !.resource = resource,
                               !.loaded = schemaTemplates # Undefined]
  IN IF ~parsedUri.ok THEN [base EXCEPT !.error = "throw"]
     ELSE IF filename = <<>> THEN [base EXCEPT !.error = "filename"]
     ELSE IF schemaTemplates = Undefined THEN base
     ELSE IF foundSchema = Undefined THEN [base EXCEPT !.matched = TRUE]
     ELSE IF folder = 0
          THEN [base EXCEPT !.matched = TRUE, !.found = foundSchema, !.error = "folder"]
     ELSE [base EXCEPT !.matched = TRUE, !.found = foundSchema, !.folder = folder,
                       !.uri = Str(EncodeUri(foundSchema.name, folder - 1))]

onRequestSchemaURI(resource) ==
  /\ act = "registered"
  /\ uriOut' = UriAnswer(resource)
  /\ UNCHANGED <<env, act, load, schemaTemplates, req>>

(***************************************************************************)
(* onRequestSchemaContent (lines 175-210).                                 *)
(***************************************************************************)
Returned(q, err) == [q EXCEPT !.pc = "returned", !.error = err]
Rejected(q) == [q EXCEPT !.pc = "rejected"]

\* Faulty variant: a missing parameter selects the first root.
QueryParam_Default(query) ==
  LET params == Split(query, "&")
      pairs == [i \in 1..Len(params) |-> Split(params[i], "=")]
      hits == {i \in 1..Len(pairs) : pairs[i][1] = workspaceFolderQueryParam}
      first == pairs[CHOOSE i \in hits : \A j \in hits : i <= j]
  IN IF hits = {} THEN Str(<<"0">>)
     ELSE IF Len(first) < 2 THEN Undefined ELSE Str(first[2])

\* Lines 192-194: the text after "=" of the first parameter named
\* workspaceFolder; undefined when there is no such parameter or no "=".
QueryParam(query) ==
  LET params == Split(query, "&")
      pairs == [i \in 1..Len(params) |-> Split(params[i], "=")]
      hits == {i \in 1..Len(pairs) : pairs[i][1] = workspaceFolderQueryParam}
      first == pairs[CHOOSE i \in hits : \A j \in hits : i <= j]
  IN IF hits = {} \/ Len(first) < 2 THEN Undefined ELSE Str(first[2])

\* Lines 176-186: up to the await of schemaTemplatesPromise.
ContentBegin(q, schemaUri) ==
  LET parsedUri == UriParse(schemaUri)
      schemaName == Pop(Split(parsedUri.path, "/"))
      q1 == [q EXCEPT !.uri = schemaUri]
  IN IF ~parsedUri.ok THEN Rejected(q1)
     ELSE IF parsedUri.scheme # SCHEMA THEN Returned(q1, "none")
     ELSE IF schemaName = <<>> THEN Returned(q1, "name")
     ELSE [q1 EXCEPT !.pc = "await", !.name = schemaName, !.query = parsedUri.query]

\* Faulty variant: the loop goes over the keys twice.
Frame_Twice(tree, path) ==
  [path |-> path, keys |-> Keys(GetPath(tree, path)) \o Keys(GetPath(tree, path))]

\* traverse(obj) is entered for the value at path: for (let key in obj).
Frame(tree, path) == [path |-> path, keys |-> Keys(GetPath(tree, path))]

\* Lines 187-205 and 41-43: after the registry has arrived, down to the
\* entry of traverse(templateObj).
ContentLookup(q, registry) ==
  LET schemaTemplate == getBySchemaName(registry, q.name)
      workspaceFolderIndex == QueryParam(q.query)
      workspaceFolder == At(Len(workspaceFolders), parseInt(workspaceFolderIndex.v))
      templateObj == JSONparse(schemaTemplate.schema)
      q1 == [q EXCEPT !.looked = TRUE]
  IN IF schemaTemplate = Undefined THEN Returned(q1, "template")
     ELSE IF ~Truthy(workspaceFolderIndex)
          THEN Returned([q1 EXCEPT !.template = schemaTemplate], "index")
     ELSE IF workspaceFolder = 0
          THEN Returned([q1 EXCEPT !.template = schemaTemplate], "folder")
     ELSE IF templateObj = Thrown
          THEN Rejected([q1 EXCEPT !.template = schemaTemplate, !.root = workspaceFolder])
     ELSE [q1 EXCEPT !.pc = "walk", !.template = schemaTemplate,
                     !.root = workspaceFolder, !.tree = templateObj,
                     !.stack = <<Frame(templateObj, <<>>)>>,
                     !.visited = <<<<>>>>]

(***************************************************************************)
(* processSchemaTemplate and traverse (lines 39-63). The stack holds one   *)
(* frame per traverse call in progress: the path of its obj and the keys of *)
(* its for-in loop still to come.                                           *)
(***************************************************************************)
\* The loop of the top frame moves on to its next key.
NextKey(stack) ==
  [stack EXCEPT ![Len(stack)].keys = Tail(stack[Len(stack)].keys)]

\* One step of the walk: the top frame returns (the last one returns the
\* serialized tree, line 62), or its loop handles one key.
WalkOn(q) ==
  LET top == q.stack[Len(q.stack)]
      obj == GetPath(q.tree, top.path)
      key == Head(top.keys)
      val == Own(obj, key)
      file == GetProp(val, <<"file">>)
  IN IF top.keys = <<>>
     THEN IF Len(q.stack) = 1
          THEN [q EXCEPT !.pc = "returned", !.stack = <<>>,
                         !.schema = Str(JSONstringify(q.tree))]
          ELSE [q EXCEPT !.stack = NextKey(SubSeq(q.stack, 1, Len(q.stack) - 1))]
     ELSE IF ~HasOwn(obj, key) THEN [q EXCEPT !.stack = NextKey(q.stack)]
     ELSE IF HasOwn(obj, <<"hasOwnProperty">>) THEN Rejected(q)
     ELSE IF key = enumField
          THEN IF file.t # "str"
               THEN Rejected([q EXCEPT !.calls = q.calls + 1,
                                       !.resolved = Append(q.resolved, top.path)])
               ELSE [q EXCEPT !.pc = "read", !.calls = q.calls + 1,
                              !.resolved = Append(q.resolved, top.path),
                              !.pend = [enumSource |-> val,
                                        fileUri |-> joinPath(workspaceFolders[q.root], file.v)]]
     ELSE IF TypeofObject(val)
          THEN [q EXCEPT !.stack = Append(q.stack, Frame(q.tree, Append(top.path, key))),
                         !.visited = Append(q.visited, Append(top.path, key))]
     ELSE [q EXCEPT !.stack = NextKey(q.stack)]

\* Faulty variant: the values are stored at the root of the template instead
\* of at the node that holds the directive.
Substitute_AtRoot(q) ==
  LET enumValues == resolveEnumValues(q.pend.enumSource, fs[q.pend.fileUri])
      strings == ArrOf([k \in 1..Len(enumValues.v) |-> Str(enumValues.v[k])])
      new == DelKey(SetKey(q.tree, <<"enum">>, strings), enumField)
  IN IF q.pend.fileUri \notin DOMAIN fs \/ ~enumValues.ok THEN Rejected(q)
     ELSE [q EXCEPT !.pc = "walk", !.pend = Undefined,
                    !.tree = new,
                    !.stack = NextKey(q.stack)]

\* Lines 74-93 and 50-52 once readFile has returned the file's bytes.
Substitute(q) ==
  LET top == q.stack[Len(q.stack)]
      obj == GetPath(q.tree, top.path)
      enumValues == resolveEnumValues(q.pend.enumSource, fs[q.pend.fileUri])
      strings == ArrOf([k \in 1..Len(enumValues.v) |-> Str(enumValues.v[k])])
      new == DelKey(SetKey(obj, <<"enum">>, strings), enumField)
  IN IF q.pend.fileUri \notin DOMAIN fs \/ ~enumValues.ok THEN Rejected(q)
     ELSE [q EXCEPT !.pc = "walk", !.pend = Undefined,
                    !.tree = SetPath(q.tree, top.path, new),
                    !.stack = NextKey(q.stack)]

\* The host calls onRequestSchemaContent(schemaUri).
ContentStart(r, schemaUri) ==
  /\ act = "registered"
  /\ req[r].pc = "idle"
  /\ req' = [req EXCEPT ![r] = ContentBegin(req[r], schemaUri)]
  /\ UNCHANGED <<env, act, load, schemaTemplates, uriOut>>

\* The await of line 186 ends: with the registry, or with the load's failure.
ContentResume(r) ==
  /\ req[r].pc = "await"
  /\ load.pc \in {"fulfilled", "rejected"}
  /\ req' = [req EXCEPT ![r] = IF load.pc = "rejected" THEN Rejected(req[r])
                               ELSE ContentLookup(req[r], load.value)]
  /\ UNCHANGED <<env, act, load, schemaTemplates, uriOut>>

\* Faulty variant: the text returned is stored as the template's schema.
WalkStep_WritesBack(r) ==
  /\ req[r].pc = "walk"
  /\ req' = [req EXCEPT ![r] = WalkOn(req[r])]
  /\ LET m == schemaTemplates.nameToTemplate
         out == WalkOn(req[r])
     IN schemaTemplates' =
          IF out.pc # "returned" THEN schemaTemplates
          ELSE [schemaTemplates EXCEPT !.nameToTemplate =
                  [i \in 1..Len(m) |->
                     IF m[i][1] # req[r].name THEN m[i]
                     ELSE <<m[i][1], [m[i][2] EXCEPT !.schema = out.schema.v]>>]]
  /\ UNCHANGED <<env, act, load, uriOut>>

WalkStep(r) ==
  /\ req[r].pc = "walk"
  /\ req' = [req EXCEPT ![r] = WalkOn(req[r])]
  /\ UNCHANGED <<env, act, load, schemaTemplates, uriOut>>

\* readFile of the data file returns.
ReadReturn(r) ==
  /\ req[r].pc = "read"
  /\ req' = [req EXCEPT ![r] = Substitute(req[r])]
  /\ UNCHANGED <<env, act, load, schemaTemplates, uriOut>>

\* Faulty variant: a failed read is swallowed and the directive gets no values.
ReadFail_Swallowed(r) ==
  /\ req[r].pc = "read"
  /\ LET q == req[r]
         top == q.stack[Len(q.stack)]
         new == DelKey(SetKey(GetPath(q.tree, top.path), <<"enum">>, ArrOf(<<>>)), enumField)
     IN req' = [req EXCEPT ![r] = [q EXCEPT !.pc = "walk", !.pend = Undefined,
                                               !.tree = SetPath(q.tree, top.path, new),
                                               !.stack = NextKey(q.stack)]]
  /\ UNCHANGED <<env, act, load, schemaTemplates, uriOut>>

\* readFile of the data file fails.
ReadFail(r) ==
  /\ req[r].pc = "read"
  /\ req' = [req EXCEPT ![r] = Rejected(req[r])]
  /\ UNCHANGED <<env, act, load, schemaTemplates, uriOut>>

(***************************************************************************)
(* The environment the runs are checked in.                                *)
(***************************************************************************)
FolderR == <<"/", "r">>
FolderS == <<"/", "s">>
TwoFolders == <<FolderR, FolderS>>

Rec(kv) == Obj(kv)
\* The data files of the two roots; any other path does not exist.
DataFiles ==
  (joinPath(FolderR, <<"f">>) :>
     ArrOf(<<Rec(<<<<<<"v">>, Str(<<"a">>)>>>>), Rec(<<<<<<"v">>, Str(<<"b">>)>>>>)>>))
  @@ (joinPath(FolderS, <<"f">>) :>
     ArrOf(<<Rec(<<<<<<"v">>, Str(<<"b">>)>>>>)>>))
  @@ (joinPath(FolderR, <<"g">>) :>
     ArrOf(<<Rec(<<<<<<"n">>, Num(1)>>>>), Rec(<<<<<<"n">>, Num(2)>>>>)>>))
  @@ (joinPath(FolderS, <<"g">>) :>
     ArrOf(<<Rec(<<<<<<"v">>, Str(<<"a">>)>>>>), Rec(<<<<<<"n">>, Num(1)>>>>)>>))

\* Two enum-source directives: a projection and a derivation.
E1 == Obj(<<<<<<"file">>, Str(<<"f">>)>>, <<<<"property">>, Str(<<"v">>)>>>>)
E2 == Obj(<<<<<<"file">>, Str(<<"g">>)>>, <<<<"expression">>, Str(<<"i=>i.n*2">>)>>>>)

\* Template trees of a given number of nodes; a directive's value counts as
\* one node.
Leaves == <<Null, Str(<<"a">>), E1, E2>>
TreeKeys == <<enumField, <<"enum">>, <<"p">>>>

\* Lists are concatenated rather than united as sets: no tree is built twice.
RECURSIVE Concat(_)
Concat(lists) == IF lists = <<>> THEN <<>> ELSE Head(lists) \o Concat(Tail(lists))

\* Every member <<k, v>> with v from values, in front of every rest.
MembersWith(k, values, rests) ==
  [i \in 1..(Len(values) * Len(rests)) |->
     <<<<k, values[((i - 1) \div Len(rests)) + 1]>>>> \o rests[((i - 1) % Len(rests)) + 1]]

\* Every element from values, in front of every rest.
ElementsWith(values, rests) ==
  [i \in 1..(Len(values) * Len(rests)) |->
     <<values[((i - 1) \div Len(rests)) + 1]>> \o rests[((i - 1) % Len(rests)) + 1]]

\* table[m] lists the trees of m nodes, for every m below the size wanted.
RECURSIVE Members(_, _, _)
Members(n, used, table) ==
  IF n = 0 THEN <<<<>>>>
  ELSE Concat([j \in 1..(Len(TreeKeys) * n) |->
                 LET k == TreeKeys[((j - 1) \div n) + 1]
                     m == ((j - 1) % n) + 1
                 IN IF k \in used THEN <<>>
                    ELSE MembersWith(k, table[m], Members(n - m, used \cup {k}, table))])
RECURSIVE Elements(_, _)
Elements(n, table) ==
  IF n = 0 THEN <<<<>>>>
  ELSE Concat([m \in 1..n |-> ElementsWith(table[m], Elements(n - m, table))])
RECURSIVE TreeTable(_, _)
TreeTable(n, leaves) ==
  IF n = 0 THEN <<>>
  ELSE LET table == TreeTable(n - 1, leaves)
           members == Members(n - 1, {}, table)
           elements == Elements(n - 1, table)
       IN Append(table, (IF n = 1 THEN leaves ELSE <<>>)
                        \o [i \in 1..Len(members) |-> Obj(members[i])]
                        \o [i \in 1..Len(elements) |-> ArrOf(elements[i])])

\* A template whose own property "hasOwnProperty" hides the inherited method.
ShadowTree == Obj(<<<<<<"hasOwnProperty">>, Str(<<"a">>)>>, <<enumField, E1>>>>)

\* The same without a directive.
PlainShadowTree == Obj(<<<<<<"hasOwnProperty">>, Str(<<"a">>)>>>>)

\* The template trees of up to n nodes; null is no template (line 107 throws).
TreesOver(n, leaves) ==
  LET list == Concat(TreeTable(n, leaves)) \o <<ShadowTree, PlainShadowTree>>
  IN {tree \in {list[i] : i \in 1..Len(list)} : tree # Null}
TemplateTrees(n) == TreesOver(n, Leaves)

File(name, content) == [name |-> name, type |-> "File", content |-> content]
Dir(name) == [name |-> name, type |-> "Directory", content |-> <<>>]

\* loadSchemas run to its end on a listing whose files all load.
RECURSIVE TemplatesOf(_)
TemplatesOf(files) ==
  IF files = <<>> THEN <<>>
  ELSE IF Head(files).type # "File" THEN TemplatesOf(Tail(files))
  ELSE <<TemplateOf(Head(files))>> \o TemplatesOf(Tail(files))
Loaded(files) ==
  [pc |-> "fulfilled", i |-> Len(files) + 1, templates |-> TemplatesOf(files),
   value |-> SchemaTemplates(TemplatesOf(files))]

\* The state once activate has registered the contributor and the load of
\* the listing has completed.
Ready(files) ==
  /\ schemaFiles = files
  /\ act = "registered"
  /\ load = Loaded(files)
  /\ schemaTemplates = Loaded(files).value
  /\ uriOut = NoUriOut
  /\ req = [r \in Reqs |-> IdleReq]

(***************************************************************************)
(* The walker on every template tree: one content request for the single   *)
(* template "a", against either root.                                       *)
(***************************************************************************)
InitWalk ==
  /\ fs = DataFiles
  /\ workspaceFolders = TwoFolders
  /\ \E tree \in TemplateTrees(MaxNodes) : Ready(<<File(<<"a">>, JSONstringify(tree))>>)

NextWalk ==
  \/ \E i \in 1..Len(workspaceFolders) : ContentStart("q1", EncodeUri(<<"a">>, i - 1))
  \/ ContentResume("q1")
  \/ WalkStep("q1")
  \/ ReadReturn("q1")
  \/ ReadFail("q1")

SpecWalk == InitWalk /\ [][NextWalk]_vars

\* The request waits at line 186 for a promise that is already settled.
Resumable(r) == req[r].pc = "await" /\ load.pc \in {"fulfilled", "rejected"}

\* The same where the request goes on: the continuation of the await of line
\* 186 and the steps of the walk are run, and every read of a data file
\* returns or fails. ContentResume(r) is enabled exactly when Resumable(r)
\* and always leaves the await, so "infinitely often not Resumable" is
\* WF_vars(ContentResume(r)). The trees are built from a text and one kind
\* of directive.
FairLeaves == <<Str(<<"a">>), E1>>
InitFairWalk ==
  /\ fs = DataFiles
  /\ workspaceFolders = TwoFolders
  /\ \E tree \in TreesOver(MaxNodes, FairLeaves) :
       Ready(<<File(<<"a">>, JSONstringify(tree))>>)
FairWalk ==
  /\ InitFairWalk
  /\ [][NextWalk]_vars
  /\ []<>~Resumable("q1")
  /\ WF_vars(WalkStep("q1"))
  /\ WF_vars(ReadFail("q1") \/ ReadReturn("q1"))

(***************************************************************************)
(* The resolver on every directive and data file: one template holding one *)
(* directive on the file "f", whose content under the first root varies.    *)
(***************************************************************************)
Absent == Undefined
Properties == {Absent, Str(<<>>), Str(<<"v">>), Str(<<"n">>), Str(<<"constructor">>)}
Expressions == {Absent, Str(<<"i=>i.v">>), Str(<<"i=>i.n*2">>), Str(<<"4", "2">>),
                Str(<<"a">>)}
Member(k, v) == IF v = Absent THEN <<>> ELSE <<<<k, v>>>>
EnumSourceOf(property, expression) ==
  Obj(<<<<<<"file">>, Str(<<"f">>)>>>> \o Member(<<"property">>, property)
      \o Member(<<"expression">>, expression))
EnumSources == {EnumSourceOf(p, e) : p \in Properties, e \in Expressions}

\* The rows a data file may hold: mappings with or without the fields v and
\* n, and an empty row.
Rows == {Rec(Member(<<"v">>, v) \o Member(<<"n">>, n)) :
           v \in {Absent, Null, Str(<<"a">>), Str(<<"b">>)}, n \in {Absent, Num(7)}}
        \cup {Null}
RECURSIVE RowSeqs(_)
RowSeqs(n) ==
  IF n = 0 THEN {<<>>}
  ELSE RowSeqs(n - 1) \cup {Append(rs, row) : rs \in {x \in RowSeqs(n - 1) : Len(x) = n - 1},
                                              row \in Rows}
\* What yaml.load may return: a sequence of rows, or no sequence at all.
YamlContents(n) == {ArrOf(rs) : rs \in RowSeqs(n)}
                   \cup {Undefined, Str(<<"a">>), Rec(Member(<<"v">>, Str(<<"a">>)))}

VariedFile == joinPath(FolderR, <<"f">>)

InitResolve ==
  /\ workspaceFolders = TwoFolders
  /\ \E content \in YamlContents(MaxRecords) : fs = (VariedFile :> content) @@ DataFiles
  /\ \E es \in EnumSources : Ready(<<File(<<"a">>, JSONstringify(Obj(<<<<enumField, es>>>>)))>>)

SpecResolve == InitResolve /\ [][NextWalk]_vars

(***************************************************************************)
(* The address codec: a loaded registry whose template names include file  *)
(* names with "#", "?" and "%23"; schema-for-resource queries, and one      *)
(* content request for an address they returned or for a hand-made one.     *)
(***************************************************************************)
\* Template (file) names with the filePattern each declares.
CodecNames == <<<<"a">>, <<"b">>, <<"a", "#", "b">>, <<"a", "?", "b">>, <<"%23">>>>
CodecPatterns == <<<<"x">>, <<"y">>, <<"x", "y">>, <<"y", "x">>, <<"x", "x">>>>
CodecTree(i) == Obj(<<<<<<"filePattern">>, Str(CodecPatterns[i])>>, <<enumField, E1>>>>)
CodecFiles == [i \in 1..Len(CodecNames) |-> File(CodecNames[i], JSONstringify(CodecTree(i)))]

FolderT == <<"/", "t">>
ResourceUri(path) == <<"file", ":", "/", "/">> \o path
Resources ==
  {ResourceUri(joinPath(d, CodecPatterns[i])) : d \in {FolderR, FolderS, FolderT},
                                                i \in 1..Len(CodecPatterns)}
  \cup {ResourceUri(joinPath(FolderR, <<"b">>)), ResourceUri(joinPath(FolderR, <<>>))}

\* Selector texts and queries of hand-made addresses.
Selectors == {<<"0">>, <<"1">>, <<"2">>, <<"0", "1">>, <<"-", "1">>, <<"+", "1">>,
              <<"a">>, <<"0", "x", "1">>, <<"1", "a">>, <<" ", "1">>, <<>>}
Queries ==
  {workspaceFolderQueryParam \o <<"=">> \o sel : sel \in Selectors}
  \cup {workspaceFolderQueryParam, <<"b", "=", "1">>, <<>>,
        <<"b", "=", "1", "&">> \o workspaceFolderQueryParam \o <<"=", "1">>,
        workspaceFolderQueryParam \o <<"=", "1", "=", "0">>}
Address(scheme, name) == scheme \o <<":", "/", "/", "schema", "/">> \o name
HandMadeUris ==
  LET bases == {Address(sc, n) : sc \in {SCHEMA, <<"http">>}, n \in {<<"a">>, <<"x">>, <<>>}}
  IN bases \cup {b \o <<"?">> \o q : b \in bases, q \in Queries}

InitCodec ==
  /\ fs = DataFiles
  /\ workspaceFolders = TwoFolders
  /\ Ready(CodecFiles)

NextCodec ==
  \/ \E resource \in Resources : onRequestSchemaURI(resource)
  \/ uriOut.uri # Undefined /\ ContentStart("q1", uriOut.uri.v)
  \/ \E schemaUri \in HandMadeUris : ContentStart("q1", schemaUri)
  \/ ContentResume("q1")
  \/ WalkStep("q1")
  \/ ReadReturn("q1")
  \/ ReadFail("q1")

SpecCodec == InitCodec /\ [][NextCodec]_vars

(***************************************************************************)
(* The registry: activation and load of every listing of up to MaxFiles    *)
(* entries, in every order, with schema-for-resource queries at any time.   *)
(***************************************************************************)
NamePool == <<<<"a">>, <<"b">>, <<"c">>, <<"d">>, <<"e">>>>
EntryNames == {NamePool[i] : i \in 1..MaxFiles}
PatternTree(pattern) == Obj(<<<<<<"filePattern">>, Str(pattern)>>, <<enumField, E1>>>>)
\* An entry is a sub-directory or a template file declaring pattern x or y.
EntriesNamed(name) ==
  {Dir(name)} \cup {File(name, JSONstringify(PatternTree(pt))) : pt \in {<<"x">>, <<"y">>}}
RECURSIVE Listings(_, _)
Listings(n, used) ==
  IF n = 0 THEN {<<>>}
  ELSE {<<>>} \cup UNION {{<<e>> \o rest : e \in EntriesNamed(name),
                                          rest \in Listings(n - 1, used \cup {name})}
                          : name \in EntryNames \ used}
\* File names asked about: the two patterns, and one that only starts like one.
RegistryResources == {ResourceUri(joinPath(FolderR, fn)) : fn \in {<<"x">>, <<"y">>, <<"x", "y">>}}

Inactive ==
  /\ act = "inactive"
  /\ load = IdleLoad
  /\ schemaTemplates = Undefined
  /\ uriOut = NoUriOut
  /\ req = [r \in Reqs |-> IdleReq]

InitRegistry ==
  /\ fs = DataFiles
  /\ workspaceFolders = TwoFolders
  /\ schemaFiles \in Listings(MaxFiles, {})
  /\ Inactive

NextRegistry ==
  \/ Activate
  \/ YamlActivated
  \/ LoadReadDir
  \/ LoadFile
  \/ \E resource \in RegistryResources : onRequestSchemaURI(resource)

SpecRegistry == InitRegistry /\ [][NextRegistry]_vars

(***************************************************************************)
(* The whole extension: activation, the load, schema-for-resource queries  *)
(* and two content requests, interleaved.                                   *)
(***************************************************************************)
TreeA == Obj(<<<<<<"filePattern">>, Str(<<"x">>)>>,
               <<<<"p">>, Obj(<<<<enumField, E1>>>>)>>,
               <<<<"q">>, ArrOf(<<Obj(<<<<enumField, E2>>>>)>>)>>>>)
TreeB == Obj(<<<<<<"filePattern">>, Str(<<"y">>)>>, <<enumField, E1>>>>)
FileA == File(<<"a">>, JSONstringify(TreeA))
FileB == File(<<"b">>, JSONstringify(TreeB))
\* A file that is no JSON: an object left open.
FileBad == File(<<"c">>, <<Punct("{")>>)
SystemListings == {<<FileA, FileB>>, <<Dir(<<"d">>), FileB, FileA>>, <<FileA, FileBad>>}
SystemResources == {ResourceUri(joinPath(d, fn)) : d \in {FolderR, FolderS},
                                                   fn \in {<<"x">>, <<"y">>}}
SystemUris == {Address(SCHEMA, <<"a">>), EncodeUri(<<"a">>, 0)}

Init ==
  /\ fs = DataFiles
  /\ workspaceFolders = TwoFolders
  /\ schemaFiles \in SystemListings
  /\ Inactive

Next ==
  \/ Activate
  \/ YamlActivated
  \/ LoadReadDir
  \/ LoadFile
  \/ \E resource \in SystemResources : onRequestSchemaURI(resource)
  \/ \E r \in Reqs : uriOut.uri # Undefined /\ ContentStart(r, uriOut.uri.v)
  \/ \E r \in Reqs : \E schemaUri \in SystemUris : ContentStart(r, schemaUri)
  \/ \E r \in Reqs : ContentResume(r)
  \/ \E r \in Reqs : WalkStep(r)
  \/ \E r \in Reqs : ReadReturn(r)
  \/ \E r \in Reqs : ReadFail(r)

Spec == Init /\ [][Next]_vars

(***************************************************************************)
(* Vocabulary of the properties.                                           *)
(***************************************************************************)
\* The paths of the object and array nodes of a tree.
RECURSIVE PathsOf(_)
PathsOf(x) ==
  IF ~IsContainer(x) THEN {}
  ELSE {<<>>} \cup UNION {{<<x.kv[i][1]>> \o p : p \in PathsOf(x.kv[i][2])}
                          : i \in 1..Len(x.kv)}

\* The nodes that hold a directive.
DirectiveNodes(x) == {p \in PathsOf(x) : HasOwn(GetPath(x, p), enumField)}

NoMarker(x) == DirectiveNodes(x) = {}

StringArray(x) ==
  /\ x.t = "arr"
  /\ \A i \in 1..Len(x.kv) : x.kv[i][1] = IdxKey(i) /\ x.kv[i][2].t = "str"

\* The node at path p holds an enum key whose value is a sequence of strings.
EnumAt(x, p) ==
  /\ p \in PathsOf(x)
  /\ HasOwn(GetPath(x, p), <<"enum">>)
  /\ StringArray(Own(GetPath(x, p), <<"enum">>))

\* p lies inside the value of a directive, or inside the value of an enum key
\* that sits beside a directive: the substitution discards such a node.
Discarded(x, p) ==
  \E i \in 0..(Len(p) - 1) :
    \/ p[i + 1] = enumField
    \/ p[i + 1] = <<"enum">> /\ HasOwn(GetPath(x, SubSeq(p, 1, i)), enumField)

\* A content request that returned a schema text; its input and output trees.
Materialized(r) == req[r].pc = "returned" /\ req[r].schema # Undefined
InputTree(r) == JSONparse(req[r].template.schema)
OutputTree(r) == JSONparse(req[r].schema.v)

\* C1 as stated: whenever processSchemaTemplate returns a text, the text's
\* tree has no enumSource key at any depth, and every object node that held an
\* enumSource key in the input holds an enum key whose value is a sequence of
\* strings.
C1_EveryDirectiveNodeHoldsEnum ==
  \A r \in Reqs : Materialized(r) =>
    /\ NoMarker(OutputTree(r))
    /\ \A p \in DirectiveNodes(InputTree(r)) : EnumAt(OutputTree(r), p)

\* C1 amended: whenever processSchemaTemplate returns a text, the text's tree
\* has no enumSource key at any depth, and every object node that held an
\* enumSource key in the input and does not lie inside the value of a
\* directive or of an enum key beside a directive holds an enum key whose
\* value is a sequence of strings.
C1_NoMarkerAndEnumAtVisitedNodes ==
  \A r \in Reqs : Materialized(r) =>
    /\ NoMarker(OutputTree(r))
    /\ \A p \in DirectiveNodes(InputTree(r)) :
         ~Discarded(InputTree(r), p) => EnumAt(OutputTree(r), p)

\* A text was returned for a template with a directive below an array.
C1_Witness ==
  \E r \in Reqs :
    /\ Materialized(r)
    /\ InputTree(r).t = "arr"
    /\ \E p \in DirectiveNodes(InputTree(r)) : Len(p) >= 1 /\ EnumAt(OutputTree(r), p)

(***************************************************************************)
(* The resolver's result, read off a returned schema.                      *)
(***************************************************************************)
\* The directive nodes of the input that the walk substitutes.
Substituted(r) == {p \in DirectiveNodes(InputTree(r)) : ~Discarded(InputTree(r), p)}
DirectiveAt(r, p) == Own(GetPath(InputTree(r), p), enumField)
\* The rows of the data file the directive at p names, under the request's root.
ContentAt(r, p) ==
  fs[joinPath(workspaceFolders[req[r].root], GetProp(DirectiveAt(r, p), <<"file">>).v)]
RowsAt(r, p) == [k \in 1..Len(ContentAt(r, p).kv) |-> ContentAt(r, p).kv[k][2]]
\* The strings of the enum key that the output holds at p.
EnumOf(r, p) ==
  LET a == Own(GetPath(OutputTree(r), p), <<"enum">>)
  IN [k \in 1..Len(a.kv) |-> a.kv[k][2].v]

PropertyOf(es) == GetProp(es, <<"property">>)
ExpressionOf(es) == GetProp(es, <<"expression">>)
ByProperty(es) == PropertyOf(es).t = "str" /\ PropertyOf(es).v # <<>>
ByExpression(es) == ~Truthy(PropertyOf(es)) /\ ExpressionOf(es).t = "str"
                    /\ ExpressionOf(es).v # <<>>

\* The row is a mapping with a value other than null under the key.
HasValue(row, key) == HasOwn(row, key) /\ Own(row, key).t # "null"

\* C9 as stated: when at least one record has no value for
\* enumSource.property, resolveEnum returns no value list and the enclosing
\* materialize call fails (no schema text is returned).
C9_MissingPropertyFailsResolution ==
  \A r \in Reqs : req[r].root # 0 => \A p \in Substituted(r) :
    ( /\ ByProperty(DirectiveAt(r, p))
      /\ ContentAt(r, p).t = "arr"
      /\ \E k \in 1..Len(RowsAt(r, p)) :
           ~HasValue(RowsAt(r, p)[k], PropertyOf(DirectiveAt(r, p)).v) )
    => ~Materialized(r)

\* The same for a property that no object inherits (not a claim: the part of
\* C9 that the code does satisfy).
MissingOrdinaryPropertyFails ==
  \A r \in Reqs : req[r].root # 0 => \A p \in Substituted(r) :
    ( /\ ByProperty(DirectiveAt(r, p))
      /\ PropertyOf(DirectiveAt(r, p)).v \notin Inherited
      /\ ContentAt(r, p).t = "arr"
      /\ \E k \in 1..Len(RowsAt(r, p)) :
           ~HasValue(RowsAt(r, p)[k], PropertyOf(DirectiveAt(r, p)).v) )
    => ~Materialized(r)

\* The string that the directive's strategy extracts from one row.
Extracted(es, row) ==
  IF ByProperty(es) THEN toString(GetProp(row, PropertyOf(es).v))
  ELSE toString(Call(Eval(ExpressionOf(es).v), row))

\* C10: for the property and the expression strategy, the returned sequence
\* is as long as the record sequence and its k-th element is the string
\* extracted from the k-th record (load order, nothing sorted or removed).
C10_ValuesFollowRecordOrder ==
  \A r \in Reqs : Materialized(r) =>
    \A p \in Substituted(r) :
      LET es == DirectiveAt(r, p)
      IN (ByProperty(es) \/ ByExpression(es)) =>
           /\ Len(EnumOf(r, p)) = Len(RowsAt(r, p))
           /\ \A k \in 1..Len(RowsAt(r, p)) :
                EnumOf(r, p)[k] = Extracted(es, RowsAt(r, p)[k]).v

\* The records [{v: b}, {v: a}] and [{v: a}, {v: a}] were projected on v.
C10_Witness ==
  \E r \in Reqs :
    /\ Materialized(r)
    /\ ByProperty(DirectiveAt(r, <<>>))
    /\ EnumOf(r, <<>>) \in {<<<<"b">>, <<"a">>>>, <<<<"a">>, <<"a">>>>}

(***************************************************************************)
(* The address codec.                                                      *)
(***************************************************************************)
\* The content request r is for the address that the last schema-for-resource
\* query built, and has decoded it.
Decoded(r) ==
  /\ uriOut.uri # Undefined
  /\ req[r].uri = uriOut.uri.v
  /\ req[r].pc \in {"walk", "read", "returned", "rejected"}

\* A template name free of the symbols that cut a URI or escape in it.
PlainName(name) == \A i \in 1..Len(name) : name[i] \notin {"#", "?", "%23", "/", ":"}

\* C2 as stated: decoding the address built from (n, i) yields the template
\* name n and the root index i, so the content request resolves the template
\* and the data root that the schema-for-resource query selected.
C2_AddressRoundTrip ==
  \A r \in Reqs : Decoded(r) =>
    /\ req[r].name = uriOut.found.name
    /\ req[r].template = uriOut.found
    /\ req[r].root = uriOut.folder

\* The round trip for names without "#", "?" and escapes (not a claim: the
\* part of C2 that the code does satisfy).
PlainNameRoundTrip ==
  \A r \in Reqs : (Decoded(r) /\ PlainName(uriOut.found.name)) =>
    /\ req[r].name = uriOut.found.name
    /\ req[r].template = uriOut.found
    /\ req[r].root = uriOut.folder

\* The query of the request's address names the workspaceFolder parameter.
HasSelector(r) ==
  \E piece \in {Split(req[r].query, "&")[i] : i \in 1..Len(Split(req[r].query, "&"))} :
    Split(piece, "=")[1] = workspaceFolderQueryParam

\* The request went on to materialize a schema against some root.
Proceeded(r) ==
  \/ req[r].root # 0
  \/ req[r].pc \in {"walk", "read"}
  \/ req[r].schema # Undefined

Begun(r) == req[r].pc # "idle"

\* C3: a content request whose address has no workspaceFolder parameter
\* returns no schema and never proceeds with a root; once its template name
\* has resolved, it returns with the error that the index was not extracted.
C3_MissingSelectorIsMalformed ==
  \A r \in Reqs : (Begun(r) /\ ~HasSelector(r)) =>
    /\ ~Proceeded(r)
    /\ req[r].template # Undefined => req[r].pc = "returned" /\ req[r].error = "index"

\* The address of a registered template without the parameter was rejected.
C3_Witness ==
  \E r \in Reqs :
    /\ req[r].uri = Address(SCHEMA, <<"a">>)
    /\ req[r].template # Undefined
    /\ req[r].pc = "returned" /\ req[r].error = "index"

\* The text of the selector; a base-10 non-negative integer is all digits.
SelectorText(r) == QueryParam(req[r].query)
Base10(text) == text # <<>> /\ \A i \in 1..Len(text) : IsDigit(text[i])

\* C4 as stated: an address whose selector text is not a base-10
\* non-negative integer is reported as malformed and no schema is
\* materialized against any data root.
C4_SelectorMustBeBase10 ==
  \A r \in Reqs :
    (Begun(r) /\ SelectorText(r) # Undefined /\ ~Base10(SelectorText(r).v)) =>
      ~Proceeded(r)

(***************************************************************************)
(* materialize as one function of the template tree and the data root:     *)
(* what processSchemaTemplate returns when it runs alone and every read     *)
(* succeeds (Thrown when it fails).                                         *)
(***************************************************************************)
resolveEnum(enumSource, root) ==
  LET file == GetProp(enumSource, <<"file">>)
      fileUri == joinPath(root, file.v)
  IN IF file.t # "str" THEN Throw
     ELSE IF fileUri \notin DOMAIN fs THEN Throw
     ELSE resolveEnumValues(enumSource, fs[fileUri])

RECURSIVE materialize(_, _)
RECURSIVE traverse(_, _, _)
traverse(obj, keys, root) ==
  IF keys = <<>> THEN obj
  ELSE LET key == Head(keys)
           enumValues == resolveEnum(Own(obj, key), root)
           strings == ArrOf([k \in 1..Len(enumValues.v) |-> Str(enumValues.v[k])])
           child == materialize(Own(obj, key), root)
       IN IF ~HasOwn(obj, key) THEN traverse(obj, Tail(keys), root)
          ELSE IF HasOwn(obj, <<"hasOwnProperty">>) THEN Thrown
          ELSE IF key = enumField
               THEN IF ~enumValues.ok THEN Thrown
                    ELSE traverse(DelKey(SetKey(obj, <<"enum">>, strings), enumField),
                                  Tail(keys), root)
          ELSE IF TypeofObject(Own(obj, key))
               THEN IF child = Thrown THEN Thrown
                    ELSE traverse(SetKey(obj, key, child), Tail(keys), root)
          ELSE traverse(obj, Tail(keys), root)
materialize(x, root) == IF IsContainer(x) THEN traverse(x, Keys(x), root) ELSE x

(***************************************************************************)
(* Readiness of the registry.                                              *)
(***************************************************************************)
\* C5: a schema-for-resource query that runs before the load has completed
\* returns no URI and matches no template, and a content request looks up a
\* template only once the load has completed.
C5_NothingBeforeTheLoadCompletes ==
  [][ /\ (uriOut' # uriOut /\ load.pc # "fulfilled") =>
           (uriOut'.uri = Undefined /\ ~uriOut'.matched /\ uriOut'.found = Undefined)
      /\ \A r \in Reqs : (~req[r].looked /\ req'[r].looked) =>
           (load.pc = "fulfilled" /\ req[r].pc = "await") ]_vars

\* While the load is still reading files, a query has been answered without a
\* URI and a content request is waiting for the registry.
C5_Witness ==
  /\ load.pc = "files"
  /\ uriOut.called /\ uriOut.uri = Undefined /\ ~uriOut.matched
  /\ \E r \in Reqs : req[r].pc = "await"

(***************************************************************************)
(* Isolation of a failed data-file read.                                   *)
(***************************************************************************)
\* The request failed at one of its own reads (or at resolving what it read).
FailedAtRead(r) == req[r].pc = "rejected" /\ req[r].pend # Undefined

\* C6: whatever reads of other requests fail, the registry and the raw schema
\* texts stay as loaded, a request is rejected only for a failure of its own,
\* and every request that returns a schema returns the fully materialized one
\* for its own template and root.
C6_FailedReadTouchesNothingElse ==
  /\ load.pc = "fulfilled" =>
       /\ load.value = Loaded(schemaFiles).value
       /\ schemaTemplates = Loaded(schemaFiles).value
  /\ \A r \in Reqs :
       /\ req[r].pc = "rejected" => (load.pc = "rejected" \/ FailedAtRead(r))
       /\ Materialized(r) =>
            /\ req[r].template = getBySchemaName(Loaded(schemaFiles).value, req[r].name)
            /\ OutputTree(r) = materialize(InputTree(r), workspaceFolders[req[r].root])
            /\ NoMarker(OutputTree(r))

\* One request failed at a read; another one for the same address returned
\* its schema.
C6_Witness ==
  \E r1 \in Reqs : \E r2 \in Reqs :
    /\ FailedAtRead(r1)
    /\ Materialized(r2)
    /\ req[r1].uri = req[r2].uri

(***************************************************************************)
(* Lookup by file name.                                                    *)
(***************************************************************************)
\* The file name the last schema-for-resource query asked about.
AskedName == Pop(Split(UriParse(uriOut.resource).path, "/"))
\* The filePattern that a plain file of the directory declares.
PatternOf(entry) == GetProp(JSONparse(entry.content), <<"filePattern">>)
\* The plain files of the directory that declare the pattern.
Declaring(fileName) ==
  {i \in 1..Len(schemaFiles) : /\ schemaFiles[i].type = "File"
                               /\ PatternOf(schemaFiles[i]) = Str(fileName)}
\* The query was answered from the loaded registry.
Answered == uriOut.called /\ uriOut.loaded /\ uriOut.error # "filename"
IsEntry(t, e) == t # Undefined /\ t.name = e.name /\ t.schema = e.content

\* C7: when two or more registered templates declare the file name asked
\* about, matchByFileName returns the one registered first, in every order
\* of the directory listing.
C7_FirstRegisteredWins ==
  (Answered /\ Cardinality(Declaring(AskedName)) >= 2) =>
    \E i \in Declaring(AskedName) :
      /\ \A j \in Declaring(AskedName) : i <= j
      /\ IsEntry(uriOut.found, schemaFiles[i])

\* Three templates declare the file name asked about and the first one listed
\* is not the first of the name pool.
C7_Witness ==
  /\ Answered
  /\ Cardinality(Declaring(AskedName)) >= 2
  /\ uriOut.found # Undefined /\ uriOut.found.name # NamePool[1]

\* C8: when exactly one registered template declares the file name asked
\* about, matchByFileName returns that template; when none declares it
\* exactly, it returns not-found.
C8_ExactMatchOnly ==
  Answered =>
    /\ Declaring(AskedName) = {} => (uriOut.found = Undefined /\ uriOut.uri = Undefined)
    /\ \A i \in Declaring(AskedName) :
         Declaring(AskedName) = {i} => IsEntry(uriOut.found, schemaFiles[i])

\* A template was found for its own pattern, and a file name that only starts
\* with a declared pattern was not found.
C8_Witness ==
  /\ Answered
  /\ \/ Cardinality(Declaring(AskedName)) = 1 /\ uriOut.found # Undefined
     \/ /\ AskedName = <<"x", "y">>
        /\ Declaring(<<"x">>) # {}
        /\ uriOut.found = Undefined
(***************************************************************************)
(* Templates without a directive.                                          *)
(***************************************************************************)
\* processSchemaTemplate has parsed the request's template and entered the walk.
Walked(r) == req[r].tree # Undefined

\* No node of the tree has an own key that hides the inherited hasOwnProperty.
NoShadow(x) == \A p \in PathsOf(x) : ~HasOwn(GetPath(x, p), <<"hasOwnProperty">>)

\* C11 as stated: materialize on a template that contains no enumSource key at
\* any depth never calls the resolver, does not fail, and returns a text whose
\* JSON tree equals the input's JSON tree.
C11_PlainTemplateComesBackUnchanged ==
  \A r \in Reqs : (Walked(r) /\ NoMarker(InputTree(r))) =>
    /\ req[r].calls = 0
    /\ req[r].pc \in {"walk", "returned"}
    /\ req[r].pc = "returned" => (Materialized(r) /\ OutputTree(r) = InputTree(r))

\* The same for templates in which no key hides hasOwnProperty (not a claim:
\* the part of C11 that the code does satisfy).
PlainUnshadowedComesBackUnchanged ==
  \A r \in Reqs : (Walked(r) /\ NoMarker(InputTree(r)) /\ NoShadow(InputTree(r))) =>
    /\ req[r].calls = 0
    /\ req[r].pc \in {"walk", "returned"}
    /\ req[r].pc = "returned" => (Materialized(r) /\ OutputTree(r) = InputTree(r))

\* A nested template without a directive came back.
PlainReturned ==
  \E r \in Reqs : /\ Materialized(r) /\ NoMarker(InputTree(r))
                  /\ \E p \in PathsOf(InputTree(r)) : Len(p) = 2

(***************************************************************************)
(* Templates with several directives.                                      *)
(***************************************************************************)
\* What the resolver returns for the directive at p under the request's root.
ResultAt(r, p) == resolveEnum(DirectiveAt(r, p), workspaceFolders[req[r].root])

\* The output holds at p the resolver's result for the directive of p.
OwnResultAt(r, p) ==
  /\ ResultAt(r, p).ok
  /\ EnumAt(OutputTree(r), p)
  /\ EnumOf(r, p) = ResultAt(r, p).v

\* C12 as stated: the text returned by materialize has at each directive's
\* node an enum value equal to the resolver's result for that node's own
\* directive (so none is left unsubstituted and none has failed), and a
\* request that fails returns no text.
C12_EveryDirectiveHoldsItsOwnResult ==
  \A r \in Reqs :
    /\ Materialized(r) =>
         /\ NoMarker(OutputTree(r))
         /\ \A p \in DirectiveNodes(InputTree(r)) : OwnResultAt(r, p)
    /\ req[r].pc = "rejected" => req[r].schema = Undefined

\* C12 amended: the same for each directive node that does not lie inside the
\* value of a directive or of an enum key beside a directive.
C12_SubstitutedDirectivesHoldTheirOwnResult ==
  \A r \in Reqs :
    /\ Materialized(r) =>
         /\ NoMarker(OutputTree(r))
         /\ \A p \in Substituted(r) : OwnResultAt(r, p)
    /\ req[r].pc = "rejected" => req[r].schema = Undefined

\* A text was returned for a template with two directives, one nested below
\* the other's node, and the two nodes hold different values.
C12_Witness ==
  \E r \in Reqs :
    /\ Materialized(r)
    /\ \E p1 \in Substituted(r) : \E p2 \in Substituted(r) :
         /\ Len(p1) < Len(p2)
         /\ EnumOf(r, p1) # EnumOf(r, p2)
         /\ OwnResultAt(r, p1) /\ OwnResultAt(r, p2)

(***************************************************************************)
(* The answer of a schema-for-resource query.                              *)
(***************************************************************************)
\* The workspace roots whose path is a prefix of the path of the resource
\* that the last query asked about.
RootsOf ==
  {i \in 1..Len(workspaceFolders) :
     StartsWith(fsPath(UriParse(uriOut.resource)), workspaceFolders[i])}

\* The URI returned carries the name of a template declaring the file name
\* and the index of a root that is a prefix of the resource path.
CarriesNameAndRoot ==
  /\ uriOut.uri # Undefined
  /\ uriOut.error = "none"
  /\ \E i \in Declaring(AskedName) : \E k \in RootsOf :
       uriOut.uri.v = EncodeUri(schemaFiles[i].name, k - 1)

NoUriWithError(err) == uriOut.uri = Undefined /\ uriOut.error = err

\* C13 as stated: after the load, a query whose file name matches a template
\* returns a URI carrying the template's name and the index of a root that is
\* a prefix of the resource path, or reports an error and returns no URI when
\* no root is a prefix; when no template matches it returns nothing and
\* reports no error.
C13_UriCarriesNameAndRoot ==
  (uriOut.called /\ uriOut.loaded) =>
    /\ (Declaring(AskedName) # {} /\ RootsOf # {}) => CarriesNameAndRoot
    /\ (Declaring(AskedName) # {} /\ RootsOf = {}) => NoUriWithError("folder")
    /\ Declaring(AskedName) = {} => NoUriWithError("none")

\* C13 amended: the same, where "no template matches, nothing returned, no
\* error" is for a resource that has a file name; a resource whose path ends
\* without a file name returns nothing and reports an error.
C13_UriCarriesNameAndRootOfNamedResource ==
  (uriOut.called /\ uriOut.loaded) =>
    /\ (Declaring(AskedName) # {} /\ RootsOf # {}) => CarriesNameAndRoot
    /\ (Declaring(AskedName) # {} /\ RootsOf = {}) => NoUriWithError("folder")
    /\ (Declaring(AskedName) = {} /\ AskedName # <<>>) => NoUriWithError("none")
    /\ AskedName = <<>> => NoUriWithError("filename")

\* A query for a matching file under the second root was answered with a URI
\* of index 1.
C13_Witness ==
  /\ uriOut.called /\ uriOut.loaded
  /\ Declaring(AskedName) # {}
  /\ RootsOf = {2}
  /\ CarriesNameAndRoot

(***************************************************************************)
(* A template file that is not JSON.                                       *)
(***************************************************************************)
\* Some plain file of the template directory is not valid JSON.
HasBadFile ==
  \E i \in 1..Len(schemaFiles) :
    schemaFiles[i].type = "File" /\ JSONparse(schemaFiles[i].content) = Thrown

\* C14: when a plain file of the template directory is not valid JSON, the
\* load never completes and the registry never becomes ready, not even with
\* the templates read before the bad file; no schema-for-resource query
\* returns a URI or matches a template, and no content request looks up a
\* template, enters the walk or returns a schema.
C14_LoadIsAllOrNothing ==
  HasBadFile =>
    /\ load.pc # "fulfilled" /\ load.value = Undefined
    /\ schemaTemplates = Undefined
    /\ uriOut.uri = Undefined /\ uriOut.found = Undefined
    /\ \A r \in Reqs : ~req[r].looked /\ ~Walked(r) /\ req[r].schema = Undefined

\* The load failed at a bad file after it had read a good one; since then a
\* query was answered "not loaded" and a content request was rejected.
C14_Witness ==
  /\ HasBadFile
  /\ load.pc = "rejected" /\ load.templates # <<>>
  /\ uriOut.called /\ ~uriOut.loaded /\ uriOut.uri = Undefined
  /\ \E r \in Reqs : req[r].pc = "rejected"

(***************************************************************************)
(* The early returns of a schema-content query.                            *)
(***************************************************************************)
SchemeOf(r) == UriParse(req[r].uri).scheme
\* A template is registered under the name that the request decoded.
Registered(r) ==
  \E i \in 1..Len(schemaFiles) :
    schemaFiles[i].type = "File" /\ schemaFiles[i].name = req[r].name
\* The selector text is the index of one of the workspace roots.
NamesRoot(text) == Base10(text) /\ parseInt(text).n < Len(workspaceFolders)

\* The request has returned nothing, or is still on its way to do so, and has
\* called neither the walker nor the resolver; once returned, err was reported.
Nothing(r, err) ==
  /\ req[r].schema = Undefined
  /\ ~Walked(r)
  /\ req[r].calls = 0
  /\ req[r].pc \in {"await", "returned"}
  /\ req[r].pc = "returned" => req[r].error = err

\* C15 as stated: a content query returns nothing and calls neither the walker
\* nor the resolver when the scheme is foreign (no error), when the template
\* name is not registered (error), and when the index names no known root
\* (error); a schema text is returned only when all three resolve.
C15_NothingUnlessAllResolve ==
  \A r \in Reqs : (Begun(r) /\ UriParse(req[r].uri).ok) =>
    /\ SchemeOf(r) # SCHEMA => (Nothing(r, "none") /\ req[r].pc = "returned")
    /\ (SchemeOf(r) = SCHEMA /\ req[r].name # <<>> /\ ~Registered(r)) =>
         Nothing(r, "template")
    /\ (SchemeOf(r) = SCHEMA /\ Registered(r) /\ Truthy(SelectorText(r))
          /\ ~NamesRoot(SelectorText(r).v)) =>
         Nothing(r, "folder")
    /\ Materialized(r) =>
         /\ SchemeOf(r) = SCHEMA
         /\ Registered(r)
         /\ Truthy(SelectorText(r)) /\ NamesRoot(SelectorText(r).v)

\* The same for addresses whose selector is a base-10 number (not a claim: the
\* part of C15 that the code does satisfy).
NothingUnlessAllResolveBase10 ==
  \A r \in Reqs : (Begun(r) /\ UriParse(req[r].uri).ok) =>
    /\ SchemeOf(r) # SCHEMA => (Nothing(r, "none") /\ req[r].pc = "returned")
    /\ (SchemeOf(r) = SCHEMA /\ req[r].name # <<>> /\ ~Registered(r)) =>
         Nothing(r, "template")
    /\ (SchemeOf(r) = SCHEMA /\ Registered(r) /\ Truthy(SelectorText(r))
          /\ Base10(SelectorText(r).v) /\ ~NamesRoot(SelectorText(r).v)) =>
         Nothing(r, "folder")
    /\ (Materialized(r) /\ Truthy(SelectorText(r)) /\ Base10(SelectorText(r).v)) =>
         /\ SchemeOf(r) = SCHEMA
         /\ Registered(r)
         /\ NamesRoot(SelectorText(r).v)
    /\ Materialized(r) => (SchemeOf(r) = SCHEMA /\ Registered(r) /\ req[r].root # 0)

\* A request for index 2 of two roots returned nothing with the error.
OutOfRangeReturned ==
  \E r \in Reqs : /\ Registered(r) /\ Truthy(SelectorText(r))
                  /\ SelectorText(r).v = <<"2">>
                  /\ req[r].pc = "returned" /\ req[r].error = "folder"

(***************************************************************************)
(* Strategy selection.                                                     *)
(***************************************************************************)
\* A key of the directive is set when it holds a non-empty text, and absent
\* when the directive has no such key.
IsSet(x) == x.t = "str" /\ x.v # <<>>
IsAbsent(x) == x = Undefined

\* The projection of a field out of every record, as strings.
Projection(yamlContent, prop) ==
  MapToStrings(yamlContent, [by |-> "property", prop |-> prop])
\* The expression applied to every record, as strings.
Application(yamlContent, expr) ==
  IF Eval(expr) = Thrown THEN Throw
  ELSE MapToStrings(yamlContent, [by |-> "expression", fn |-> Eval(expr)])

\* What resolveEnum is to return by the selection rule, once the file is read.
Selected(es, yamlContent) ==
  IF IsSet(PropertyOf(es)) THEN Projection(yamlContent, PropertyOf(es).v)
  ELSE IF IsSet(ExpressionOf(es)) THEN Application(yamlContent, ExpressionOf(es).v)
  ELSE Ok(<<>>)

\* The directive is one the rule speaks about: each key is set or absent.
Covered(es) ==
  /\ IsSet(PropertyOf(es)) \/ IsAbsent(PropertyOf(es))
  /\ IsSet(ExpressionOf(es)) \/ IsAbsent(ExpressionOf(es))

\* C16: when property is set the result is the projection of that field,
\* whatever the expression; when property is absent and expression is set it
\* is the expression applied to every record; when both are absent it is the
\* empty sequence, without an error, and the directive is replaced by
\* enum: [].
C16_StrategySelection ==
  \A r \in Reqs :
    /\ (req[r].pc = "read" /\ req[r].pend.fileUri \in DOMAIN fs
          /\ Covered(req[r].pend.enumSource)) =>
         LET es == req[r].pend.enumSource
             yamlContent == fs[req[r].pend.fileUri]
         IN /\ resolveEnumValues(es, yamlContent) = Selected(es, yamlContent)
            /\ (IsAbsent(PropertyOf(es)) /\ IsAbsent(ExpressionOf(es))) =>
                 Substitute(req[r]).pc = "walk"
    /\ Materialized(r) =>
         \A p \in Substituted(r) :
           LET es == DirectiveAt(r, p)
           IN Covered(es) =>
                /\ Selected(es, ContentAt(r, p)).ok
                /\ EnumAt(OutputTree(r), p)
                /\ EnumOf(r, p) = Selected(es, ContentAt(r, p)).v

\* A directive with both keys set came back with a non-empty projection, which
\* is not what its expression gives.
C16_Witness ==
  \E r \in Reqs :
    /\ Materialized(r)
    /\ IsSet(PropertyOf(DirectiveAt(r, <<>>)))
    /\ IsSet(ExpressionOf(DirectiveAt(r, <<>>)))
    /\ EnumOf(r, <<>>) # <<>>
    /\ Ok(EnumOf(r, <<>>)) = Projection(ContentAt(r, <<>>), PropertyOf(DirectiveAt(r, <<>>)).v)
    /\ Ok(EnumOf(r, <<>>)) # Application(ContentAt(r, <<>>), ExpressionOf(DirectiveAt(r, <<>>)).v)

\* A directive with neither key came back as enum: [] although its data file
\* holds no sequence of records.
BothAbsentReturned ==
  \E r \in Reqs :
    /\ Materialized(r)
    /\ IsAbsent(PropertyOf(DirectiveAt(r, <<>>)))
    /\ IsAbsent(ExpressionOf(DirectiveAt(r, <<>>)))
    /\ ContentAt(r, <<>>).t # "arr"
    /\ EnumOf(r, <<>>) = <<>>

(***************************************************************************)
(* The registry after the load.                                            *)
(***************************************************************************)
\* The registry that the load of the directory yields.
LoadedRegistry == SchemaTemplates(TemplatesOf(schemaFiles))

\* C17: the registry variable changes at most once, from unset to the loaded
\* registry, while the load is running; from then on it and the value of the
\* promise stay what the load made of the template files (same names,
\* filePatterns and raw schema texts), whatever requests run, and the template
\* a request works on is the stored one, its text as loaded.
C17_RegistryIsImmutable ==
  /\ [](schemaTemplates # Undefined =>
          /\ schemaTemplates = LoadedRegistry
          /\ load.value = LoadedRegistry
          /\ \A r \in Reqs : req[r].template # Undefined =>
               /\ req[r].template = getBySchemaName(LoadedRegistry, req[r].name)
               /\ \E i \in 1..Len(schemaFiles) :
                    /\ schemaFiles[i].name = req[r].name
                    /\ schemaFiles[i].content = req[r].template.schema)
  /\ [][ /\ schemaTemplates' # schemaTemplates =>
              (schemaTemplates = Undefined /\ load.pc \in {"dir", "files"})
         /\ load.pc = "fulfilled" => load' = load
         /\ schemaFiles' = schemaFiles ]_vars

\* With the registry loaded, a query has returned a URI, one request has
\* returned a schema that differs from its template, and another has failed.
C17_Witness ==
  /\ schemaTemplates # Undefined
  /\ schemaTemplates = LoadedRegistry
  /\ uriOut.uri # Undefined
  /\ \E r1 \in Reqs : \E r2 \in Reqs :
       /\ Materialized(r1) /\ OutputTree(r1) # InputTree(r1)
       /\ req[r1].schema.v # getBySchemaName(schemaTemplates, req[r1].name).schema
       /\ req[r2].pc = "rejected"

(***************************************************************************)
(* Termination and economy of the walk.                                    *)
(***************************************************************************)
Completed(r) == req[r].pc \in {"returned", "rejected"}
NoDup(seq) == \A i \in 1..Len(seq) : \A j \in 1..Len(seq) : i < j => seq[i] # seq[j]
Range(seq) == {seq[i] : i \in 1..Len(seq)}
Inside(p, key) == \E i \in 1..Len(p) : p[i] = key
KeyIndex(o, k) == CHOOSE i \in 1..Len(o.kv) : o.kv[i][1] = k

\* p lies inside the value of a directive, or inside the value of an enum key
\* that comes after a directive in the same object: the substitution replaces
\* that value before the loop gets to it.
Unreached(x, p) ==
  \E i \in 0..(Len(p) - 1) :
    \/ p[i + 1] = enumField
    \/ /\ p[i + 1] = <<"enum">>
       /\ HasOwn(GetPath(x, SubSeq(p, 1, i)), enumField)
       /\ KeyIndex(GetPath(x, SubSeq(p, 1, i)), enumField)
            < KeyIndex(GetPath(x, SubSeq(p, 1, i)), <<"enum">>)

\* The walk so far: no node entered twice and none inside a directive's
\* value; the resolver called at directive nodes of the input only, once at
\* most for each, with the directive that the input holds there.
Economical(r) ==
  /\ NoDup(req[r].visited)
  /\ \A p \in Range(req[r].visited) : ~Inside(p, enumField)
  /\ NoDup(req[r].resolved)
  /\ Len(req[r].resolved) = req[r].calls
  /\ \A p \in Range(req[r].resolved) :
       p \in DirectiveNodes(InputTree(r)) /\ ~Inside(p, enumField)
  /\ req[r].pc = "read" =>
       req[r].pend.enumSource = DirectiveAt(r, req[r].resolved[Len(req[r].resolved)])

\* C18 as stated: a content request that has begun completes (q1 is the one
\* request of the walker's specifications); the walker
\* visits each node at most once, does not descend into a directive's value,
\* does not resolve anything but the directives of the input, and has called
\* the resolver exactly once per enumSource key when it returns the schema.
C18_WalkTerminatesOncePerKey ==
  /\ [](\A r \in Reqs : Walked(r) =>
          /\ Economical(r)
          /\ Materialized(r) =>
               Range(req[r].resolved)
                 = {p \in DirectiveNodes(InputTree(r)) : ~Inside(p, enumField)})
  /\ Begun("q1") ~> Completed("q1")

\* C18 amended: the same, the resolver having been called exactly once per
\* enumSource key that lies neither inside a directive's value nor inside the
\* value of an enum key that follows a directive in the same object.
C18_WalkTerminatesOncePerReachedKey ==
  /\ [](\A r \in Reqs : Walked(r) =>
          /\ Economical(r)
          /\ Materialized(r) =>
               Range(req[r].resolved)
                 = {p \in DirectiveNodes(InputTree(r)) : ~Unreached(InputTree(r), p)})
  /\ Begun("q1") ~> Completed("q1")

\* A schema was returned after two resolver calls, one of them below the root.
C18_Witness ==
  \E r \in Reqs :
    /\ Materialized(r)
    /\ req[r].calls = 2
    /\ Len(req[r].visited) >= 2
    /\ \E p \in Range(req[r].resolved) : Len(p) >= 1

====
